---- MODULE Spec2Model ----
(***************************************************************************)
(* Industry-Resource-Mapping: the Iterative matching / BOM-explosion       *)
(* engine of industry_resource_mapping/algorithms.py, with the domain      *)
(* model of industry_resource_mapping/instances.py.                        *)
(*                                                                         *)
(* Python objects are records; None is the string "None"; an absent        *)
(* production / instance / result / error is a record of the same shape    *)
(* whose id (or name) is None.  A solve call is three kinds of step:       *)
(* Solve (MappingAlgorithm.solve up to the end of _init), Iterate (one     *)
(* pass of the while loop of Iterative._solve, its raise included) and     *)
(* Return (the loop test failing and _construct_result).  The function      *)
(* plan_production_ignoring_existing runs in its own frame (Plan,           *)
(* PlanIterate, PlanReturn), and Access is a read of one of the lazy index  *)
(* properties of a returned MappingResult.                                  *)
(***************************************************************************)
EXTENDS Integers, Sequences, FiniteSets, TLC

\* ------------------------------------------------------------------ bounds
\* largest amount of an instance demand or provider
MaxAmount == 2
\* largest multiplier of a recipe entry
MaxMult == 2
\* an instance holds at most MaxSize demands, providers and recipe entries in total
MaxSize == 3
\* the demand id counter never passes MaxGen (a cyclic recipe graph generates for ever)
MaxGen == 4
\* a reused engine has made MaxEarlier solve calls before the one looked at
MaxEarlier == 1

\* ------------------------------------------------------------ domain model
None == "None"

Articles == {"1", "2"}
ArticleOrder == <<"1", "2">>

Engines == {"e1", "e2"}
Kinds == {"Iterative", "IterativeIgnoringExistingProviders"}

Article(id) == [id |-> id]
Provider(id, article, amount, origin) ==
    [id |-> id, article |-> article, amount |-> amount, origin |-> origin]
Demand(id, article, amount, origin) ==
    [id |-> id, article |-> article, amount |-> amount, origin |-> origin]
ArticleProduction(id, article, requirements) ==
    [id |-> id, article |-> article, requirements |-> requirements, duration |-> 1]
Mapping(provider, demand, amount) ==
    [provider |-> provider, demand |-> demand, amount |-> amount]
ProviderAmount(provider, amount) == [provider |-> provider, amount |-> amount]

\* dict.get(article, None) finding nothing
NoProduction == ArticleProduction(None, None, <<>>)

\* MappingInstance.__init__ with build_data left False
MappingInstance(name, articles, demands, providers, article_productions) ==
    [name |-> name, articles |-> articles, demands |-> demands,
     providers |-> providers, article_productions |-> article_productions,
     data_built |-> FALSE,
     by_article |-> [a \in Articles |-> NoProduction]]

NoInstance == MappingInstance(None, <<>>, <<>>, <<>>, <<>>)

\* a dict with no key
EmptyDict == [k \in {} |-> <<>>]

\* MappingResult.__init__: whatever build_data is, no index is built (its call
\* of _build_data_if_needed lacks the parentheses)
MappingResult(name, inst, demands, providers, mappings) ==
    [name |-> name, instance |-> inst, demands |-> demands,
     providers |-> providers, mappings |-> mappings,
     data_built |-> FALSE,
     demands_by_origin |-> EmptyDict, providers_by_origin |-> EmptyDict,
     demands_origin |-> EmptyDict, providers_origin |-> EmptyDict]

NoResult == MappingResult(None, NoInstance, <<>>, <<>>, <<>>)

UndefinedProductionError(inst, article) == [instance |-> inst, article |-> article]

NoError == UndefinedProductionError(NoInstance, None)

\* no index property of a result has been read
NoValue == [property |-> None, value |-> EmptyDict]

\* ------------------------------------------------------------------ helpers
Max(S) == CHOOSE x \in S : \A y \in S : y <= x

RECURSIVE SumSeq(_)
SumSeq(s) == IF s = <<>> THEN 0 ELSE Head(s) + SumSeq(Tail(s))

Amounts(s) == [i \in DOMAIN s |-> s[i].amount]

RECURSIVE Concat(_)
Concat(ss) == IF ss = <<>> THEN <<>> ELSE Head(ss) \o Concat(Tail(ss))

SeqsUpTo(S, n) == UNION {[1..k -> S] : k \in 0..n}

\* the dict comprehension of _build_data_if_needed: the last production listed
\* for an article wins
index_by_article(article_productions) ==
    [a \in Articles |->
        LET at == {i \in DOMAIN article_productions : article_productions[i].article = a}
        IN  IF at = {} THEN NoProduction ELSE article_productions[Max(at)]]

\* MappingInstance._build_data_if_needed: the index is built once and cached
build_data_if_needed(inst) ==
    IF inst.data_built THEN inst
    ELSE [inst EXCEPT !.by_article = index_by_article(inst.article_productions),
                      !.data_built = TRUE]

\* ------------------------------------------------------------ result indices
\* groupby keeping, for each property, the last item only (a dict comprehension)
RECURSIVE groupby_loop_overwrite(_, _, _)
groupby_loop_overwrite(grouped, items, props) ==
    IF items = <<>> THEN grouped
    ELSE LET prop == Head(props)
         IN  groupby_loop_overwrite(
                 [k \in DOMAIN grouped \cup {prop} |->
                     IF k = prop THEN <<Head(items)>> ELSE grouped[k]],
                 Tail(items), Tail(props))

\* the loop of groupby: grouped[prop].append(item) on a defaultdict(list);
\* props[i] is f_by of the i-th item
RECURSIVE groupby_loop(_, _, _)
groupby_loop(grouped, items, props) ==
    IF items = <<>> THEN grouped
    ELSE LET prop == Head(props)
             before == IF prop \in DOMAIN grouped THEN grouped[prop] ELSE <<>>
         IN  groupby_loop(
                 [k \in DOMAIN grouped \cup {prop} |->
                     IF k = prop THEN Append(before, Head(items)) ELSE grouped[k]],
                 Tail(items), Tail(props))

\* groupby, f_by given by its value on each item: props[i] is f_by(iterable[i])
groupby(iterable, props) == groupby_loop(EmptyDict, iterable, props)

\* lambda d: d.origin on each item of a list
origins(items) == [i \in DOMAIN items |-> items[i].origin]

\* {x.id: x.origin for x in items}: the last item of an id wins
origin_by_id(items) ==
    [id \in {items[i].id : i \in DOMAIN items} |->
        items[Max({i \in DOMAIN items : items[i].id = id})].origin]

\* MappingResult._build_data_if_needed: the four indices are built once
MappingResult_build_data_if_needed(res) ==
    IF res.data_built THEN res
    ELSE [res EXCEPT !.demands_by_origin = groupby(res.demands, origins(res.demands)),
                     !.providers_by_origin = groupby(res.providers, origins(res.providers)),
                     !.demands_origin = origin_by_id(res.demands),
                     !.providers_origin = origin_by_id(res.providers),
                     !.data_built = TRUE]

\* the four index properties of MappingResult
IndexProperties ==
    {"demands_by_origin", "providers_by_origin", "demands_origin", "providers_origin"}

\* ------------------------------------------------------------------ graphs
\* the format function of virtual_node_ids: lambda id: f"Virtual{str(id)}"
virtual_format(id) == "Virtual" \o ToString(id)

\* the locals of build_mapping_graph before its first loop, and no graph yet;
\* a DiGraph is its nodes in the order they were added and the mapping
\* attribute of each edge (u, v)
NoGraph == [nodes |-> <<>>, adj |-> EmptyDict]
graph_frame ==
    [pc |-> "running", virtual_nodes |-> EmptyDict, virtual_node_ids |-> 0,
     edges |-> <<>>, graph |-> NoGraph]

\* before the call
NotBuilt == [graph_frame EXCEPT !.pc = "idle"]

\* virtual_node(provider=..., demand=...): a new id, recorded with what it stands for
virtual_node(f, provider, demand) ==
    LET new == virtual_format(f.virtual_node_ids + 1)
    IN  [node |-> new,
         frame |-> [f EXCEPT !.virtual_node_ids = @ + 1,
                             !.virtual_nodes =
                                 [k \in DOMAIN @ \cup {new} |->
                                     IF k = new THEN <<provider, demand>> ELSE @[k]]]]

\* the end of a mapping: the origin where there is one, else a virtual node
mapping_end(f, origin, provider, demand) ==
    IF origin # None THEN [node |-> origin, frame |-> f]
    ELSE virtual_node(f, provider, demand)

\* the loop over mapping_result.mappings; an id missing from an index is a KeyError
RECURSIVE edges_loop(_, _, _, _)
edges_loop(f, ms, providers_origin, demands_origin) ==
    IF ms = <<>> THEN f
    ELSE LET mapping == Head(ms)
         IN  IF \/ mapping.provider \notin DOMAIN providers_origin
                \/ mapping.demand \notin DOMAIN demands_origin
             THEN [f EXCEPT !.pc = "KeyError"]
             ELSE LET n_provider == mapping_end(f, providers_origin[mapping.provider],
                                                mapping.provider, None)
                      n_demand == mapping_end(n_provider.frame,
                                              demands_origin[mapping.demand],
                                              None, mapping.demand)
                      edge == <<n_provider.node, n_demand.node, mapping>>
                  IN  edges_loop([n_demand.frame EXCEPT !.edges = Append(@, edge)],
                                 Tail(ms), providers_origin, demands_origin)

\* DiGraph.add_edge(u, v, mapping=m): the nodes are added where new, and the
\* attribute of an edge already there is overwritten
add_node(nodes, n) ==
    IF \E i \in DOMAIN nodes : nodes[i] = n THEN nodes ELSE Append(nodes, n)
add_edge(g, u, v, mapping) ==
    [nodes |-> add_node(add_node(g.nodes, u), v),
     adj |-> [k \in DOMAIN g.adj \cup {<<u, v>>} |->
                 IF k = <<u, v>> THEN mapping ELSE g.adj[k]]]

RECURSIVE add_edges(_, _)
add_edges(g, edges) ==
    IF edges = <<>> THEN g
    ELSE add_edges(add_edge(g, Head(edges)[1], Head(edges)[2], Head(edges)[3]),
                   Tail(edges))

\* build_mapping_graph: the result after its indices were read, and the frame
\* of the call at its return (or at the raise)
build_mapping_graph(mapping_result) ==
    LET res == MappingResult_build_data_if_needed(mapping_result)
        f == edges_loop(graph_frame, res.mappings, res.providers_origin,
                        res.demands_origin)
    IN  [result |-> res,
         frame |-> IF f.pc = "KeyError" THEN f
                   ELSE [f EXCEPT !.graph = add_edges(NoGraph, f.edges),
                                  !.pc = "returned"]]

\* graph.graph["virtual_nodes"] of a frame
VirtualNodes(f) == DOMAIN f.virtual_nodes

\* ---------------------------------------------------------------- instances
DemandSpecs(n) == [1..n -> Articles \X (1..MaxAmount)]
ProviderSpecs(n) == [1..n -> Articles \X (0..MaxAmount)]
Requirements(n) == SeqsUpTo(Articles \X (1..MaxMult), n)
\* per article: no production (<<>>) or one production with its requirements
RecipeChoices(n) == {<<>>} \cup {<<r>> : r \in Requirements(n)}
RecipeEntries(c) == IF c = <<>> THEN 0 ELSE Len(c[1])
\* a choice for each article from the i-th of ArticleOrder on, n entries at most
RECURSIVE RecipeBooks(_, _)
RecipeBooks(i, n) ==
    IF i > Len(ArticleOrder) THEN {<<>>}
    ELSE UNION {{<<c>> \o rest : rest \in RecipeBooks(i + 1, n - RecipeEntries(c))} :
                c \in RecipeChoices(n)}

BuildInstance(ds, ps, book) ==
    MappingInstance("Instance",
        [i \in DOMAIN ArticleOrder |-> Article(ArticleOrder[i])],
        [i \in DOMAIN ds |-> Demand("D" \o ToString(i), ds[i][1], ds[i][2], None)],
        [i \in DOMAIN ps |-> Provider("P" \o ToString(i), ps[i][1], ps[i][2], None)],
        Concat([i \in DOMAIN ArticleOrder |->
            IF book[i] = <<>> THEN <<>>
            ELSE <<ArticleProduction("AP" \o ArticleOrder[i], ArticleOrder[i],
                                     book[i][1])>>]))

\* the earlier calls of a reused engine: each leaves the engine in another state.
\* A raise on a generated demand (both counters at 1); a raise with a demand left
\* in the queue and a provider left on a stack; a return with a provider partly
\* consumed and the provider counter at 1; the empty instance.
EarlierInstances ==
    { BuildInstance(<<<<"1", 1>>>>, <<>>, <<<< <<<<"2", 1>>>> >>, <<>>>>),
      BuildInstance(<<<<"2", 1>>, <<"1", 1>>>>, <<<<"1", 2>>>>, <<<<>>, <<>>>>),
      BuildInstance(<<<<"1", 1>>, <<"2", 2>>>>, <<<<"1", 2>>>>, <<<<>>, << <<>> >>>>),
      BuildInstance(<<>>, <<>>, <<<<>>, <<>>>>) }

\* ------------------------------------------------------------------- state
VARIABLES
    kind,                \* the engine's class
    demand_counter,      \* MappingAlgorithm._demand_id_manager._counter
    provider_counter,    \* MappingAlgorithm._provider_id_manager._counter
    instance,            \* the MappingInstance object held in MappingAlgorithm._instance
    demands_to_satisfy,  \* Iterative._demands_to_satisfy
    unmapped_providers,  \* Iterative._unmapped_providers
    demands,             \* local of _solve
    providers,           \* local of _solve
    mappings,            \* local of _solve
    pc,                  \* where the engine's solve call stands
    result,              \* what solve returned
    error,               \* what solve raised
    given,               \* the instance as it was handed to solve
    calls,               \* the solve calls made on the engine so far
    object,              \* which MappingInstance object the engine holds in _instance
    got,                 \* what the last read of an index property of the result gave
    plan,                \* the frame of plan_production_ignoring_existing
    graph                \* the frame of the last build_mapping_graph on the engine's result

vars == <<kind, demand_counter, provider_counter, instance, demands_to_satisfy,
          unmapped_providers, demands, providers, mappings, pc, result, error,
          given, calls, object, got, plan, graph>>

\* ------------------------------------------------------------- IdManager
gen_id == "[Gen]"

IdManager_new(counter) == counter + 1
\* reset leaving the counter where it is
IdManager_reset_nothing(counter) == counter

IdManager_reset(counter) == 0

\* the provider ids formatted like the demand ids
provider_format_as_demand(n) == gen_id \o "D-" \o ToString(n)

demand_format(n) == gen_id \o "D-" \o ToString(n)
provider_format(n) == gen_id \o "P-" \o ToString(n)

\* ------------------------------------------------------- MappingAlgorithm
\* new_demands without the multiplication by the amount produced
RECURSIVE new_demands_unscaled(_, _, _, _)
new_demands_unscaled(requirements, amount, origin, counter) ==
    IF requirements = <<>> THEN [demands |-> <<>>, counter |-> counter]
    ELSE LET c == counter + 1
             d == Demand(gen_id \o "D-" \o ToString(c), Head(requirements)[1],
                         Head(requirements)[2], origin)
             rest == new_demands_unscaled(Tail(requirements), amount, origin, c)
         IN  [demands |-> <<d>> \o rest.demands, counter |-> rest.counter]

\* _new_demand for each requirement of a recipe, in recipe order: the loop of
\* _generate_production; gives the new demands and the id counter afterwards
RECURSIVE new_demands(_, _, _, _)
new_demands(requirements, amount, origin, counter) ==
    IF requirements = <<>> THEN [demands |-> <<>>, counter |-> counter]
    ELSE LET required_article == Head(requirements)[1]
             required_amount == Head(requirements)[2] * amount
             c == IdManager_new(counter)
             d == Demand(demand_format(c), required_article, required_amount, origin)
             rest == new_demands(Tail(requirements), amount, origin, c)
         IN  [demands |-> <<d>> \o rest.demands, counter |-> rest.counter]

\* _new_provider: the provider and the id counter afterwards
new_provider(article, amount, origin, counter) ==
    LET c == IdManager_new(counter)
    IN  [provider |-> Provider(provider_format(c), article, amount, origin),
         counter |-> c]

name_result(inst) == inst.name \o ".plan"

\* _construct_result handing over the demands of the instance instead of the
\* demands the loop has gathered
construct_result_instance_demands(inst, ds, ps, ms) ==
    MappingResult(name_result(inst), inst, inst.demands, ps, ms)

construct_result(inst, ds, ps, ms) == MappingResult(name_result(inst), inst, ds, ps, ms)

\* -------------------------------------------------------------- Iterative
\* the per-article stacks built by _init, in the order of instance.providers
init_unmapped_providers(inst) ==
    [a \in Articles |->
        SelectSeq([i \in DOMAIN inst.providers |->
                      ProviderAmount(inst.providers[i], inst.providers[i].amount)],
                  LAMBDA pa : pa.provider.article = a)]

\* consume with the entry itself taken in the partial branch too: the whole
\* remaining amount of the provider is handed to the demand
RECURSIVE consume_whole_entry(_, _, _, _)
consume_whole_entry(inst, stack, needed, amount_remaining) ==
    IF ~(stack # <<>> /\ amount_remaining > 0)
    THEN [needed |-> needed, stack |-> stack, remaining |-> amount_remaining,
          instance |-> inst]
    ELSE LET unmapped_provider == stack[Len(stack)]
         IN  IF amount_remaining < unmapped_provider.amount
             THEN consume_whole_entry(inst,
                          [stack EXCEPT ![Len(stack)].amount = @ - amount_remaining],
                          Append(needed, unmapped_provider),
                          0)
             ELSE consume_whole_entry(inst,
                          SubSeq(stack, 1, Len(stack) - 1),
                          Append(needed, unmapped_provider),
                          amount_remaining - unmapped_provider.amount)

\* consume with the partial branch leaving the stack entry as it was
RECURSIVE consume_no_decrement(_, _, _, _)
consume_no_decrement(inst, stack, needed, amount_remaining) ==
    IF ~(stack # <<>> /\ amount_remaining > 0)
    THEN [needed |-> needed, stack |-> stack, remaining |-> amount_remaining,
          instance |-> inst]
    ELSE LET unmapped_provider == stack[Len(stack)]
         IN  IF amount_remaining < unmapped_provider.amount
             THEN [needed |-> Append(needed, ProviderAmount(unmapped_provider.provider,
                                                            amount_remaining)),
                   stack |-> stack, remaining |-> 0, instance |-> inst]
             ELSE consume_no_decrement(inst,
                          SubSeq(stack, 1, Len(stack) - 1),
                          Append(needed, unmapped_provider),
                          amount_remaining - unmapped_provider.amount)

\* consume writing the amount taken through to the Provider object of the instance
RECURSIVE consume_writes_provider(_, _, _, _)
consume_writes_provider(inst, stack, needed, amount_remaining) ==
    IF ~(stack # <<>> /\ amount_remaining > 0)
    THEN [needed |-> needed, stack |-> stack, remaining |-> amount_remaining,
          instance |-> inst]
    ELSE LET unmapped_provider == stack[Len(stack)]
             taken == IF amount_remaining < unmapped_provider.amount
                      THEN amount_remaining ELSE unmapped_provider.amount
             written == [inst EXCEPT !.providers =
                            [i \in DOMAIN inst.providers |->
                                IF inst.providers[i].id = unmapped_provider.provider.id
                                THEN [inst.providers[i] EXCEPT !.amount = @ - taken]
                                ELSE inst.providers[i]]]
         IN  IF amount_remaining < unmapped_provider.amount
             THEN consume_writes_provider(written,
                          [stack EXCEPT ![Len(stack)].amount = @ - amount_remaining],
                          Append(needed, ProviderAmount(unmapped_provider.provider,
                                                        amount_remaining)),
                          0)
             ELSE consume_writes_provider(written,
                          SubSeq(stack, 1, Len(stack) - 1),
                          Append(needed, unmapped_provider),
                          amount_remaining - unmapped_provider.amount)

\* consume with the whole take popping the other end of the list (pop(0)): the
\* provider taken stays on top
RECURSIVE consume_pops_bottom(_, _, _, _)
consume_pops_bottom(inst, stack, needed, amount_remaining) ==
    IF ~(stack # <<>> /\ amount_remaining > 0)
    THEN [needed |-> needed, stack |-> stack, remaining |-> amount_remaining,
          instance |-> inst]
    ELSE LET unmapped_provider == stack[Len(stack)]
         IN  IF amount_remaining < unmapped_provider.amount
             THEN consume_pops_bottom(inst,
                          [stack EXCEPT ![Len(stack)].amount = @ - amount_remaining],
                          Append(needed, ProviderAmount(unmapped_provider.provider,
                                                        amount_remaining)),
                          0)
             ELSE consume_pops_bottom(inst,
                          Tail(stack),
                          Append(needed, unmapped_provider),
                          amount_remaining - unmapped_provider.amount)

\* _q_pop taking the demand pushed last (deque.pop)
q_pop_right(queue) ==
    [demand |-> queue[Len(queue)], queue |-> SubSeq(queue, 1, Len(queue) - 1)]

\* _q_pop: deque.popleft, the demand and the queue left
q_pop(queue) == [demand |-> Head(queue), queue |-> Tail(queue)]

\* _q_push losing the demand
q_push_nothing(queue, demand) == queue

\* _q_push: deque.append
q_push(queue, demand) == Append(queue, demand)

\* _q_push for each demand of a list, in order
RECURSIVE q_push_all(_, _)
q_push_all(queue, ds) ==
    IF ds = <<>> THEN queue ELSE q_push_all(q_push(queue, Head(ds)), Tail(ds))

\* consume with <= for <: a provider holding exactly the amount needed is taken
\* in part and stays on the stack with nothing left
RECURSIVE consume_partial_on_equal(_, _, _, _)
consume_partial_on_equal(inst, stack, needed, amount_remaining) ==
    IF ~(stack # <<>> /\ amount_remaining > 0)
    THEN [needed |-> needed, stack |-> stack, remaining |-> amount_remaining,
          instance |-> inst]
    ELSE LET unmapped_provider == stack[Len(stack)]
         IN  IF amount_remaining <= unmapped_provider.amount
             THEN consume_partial_on_equal(inst,
                          [stack EXCEPT ![Len(stack)].amount = @ - amount_remaining],
                          Append(needed, ProviderAmount(unmapped_provider.provider,
                                                        amount_remaining)),
                          0)
             ELSE consume_partial_on_equal(inst,
                          SubSeq(stack, 1, Len(stack) - 1),
                          Append(needed, unmapped_provider),
                          amount_remaining - unmapped_provider.amount)

\* the while loop of _find_providers.  inst is the instance whose Provider
\* objects the stack entries refer to: the loop writes to the entries only.
RECURSIVE consume(_, _, _, _)
consume(inst, stack, needed, amount_remaining) ==
    IF ~(stack # <<>> /\ amount_remaining > 0)
    THEN [needed |-> needed, stack |-> stack, remaining |-> amount_remaining,
          instance |-> inst]
    ELSE LET unmapped_provider == stack[Len(stack)]
         IN  IF amount_remaining < unmapped_provider.amount
             THEN consume(inst,
                          [stack EXCEPT ![Len(stack)].amount = @ - amount_remaining],
                          Append(needed, ProviderAmount(unmapped_provider.provider,
                                                        amount_remaining)),
                          0)
             ELSE consume(inst,
                          SubSeq(stack, 1, Len(stack) - 1),
                          Append(needed, unmapped_provider),
                          amount_remaining - unmapped_provider.amount)

\* _find_providers looking at the top provider only, with no loop
find_providers_top_only(inst, stack, amount) ==
    IF stack = <<>>
    THEN [needed |-> <<>>, stack |-> stack, remaining |-> amount, instance |-> inst]
    ELSE LET top == stack[Len(stack)]
         IN  IF amount < top.amount
             THEN [needed |-> <<ProviderAmount(top.provider, amount)>>,
                   stack |-> [stack EXCEPT ![Len(stack)].amount = @ - amount],
                   remaining |-> 0, instance |-> inst]
             ELSE [needed |-> <<top>>, stack |-> SubSeq(stack, 1, Len(stack) - 1),
                   remaining |-> amount - top.amount, instance |-> inst]

Iterative_find_providers(inst, stack, amount) ==
    IF stack = <<>>
    THEN [needed |-> <<>>, stack |-> stack, remaining |-> amount, instance |-> inst]
    ELSE consume(inst, stack, <<>>, amount)

\* the override left out: the ignoring engine inherits _find_providers
find_providers_inherited(inst, stack, amount) ==
    Iterative_find_providers(inst, stack, amount)

IterativeIgnoringExistingProviders_find_providers(inst, stack, amount) ==
    [needed |-> <<>>, stack |-> stack, remaining |-> amount, instance |-> inst]

find_providers(k, inst, stack, amount) ==
    IF k = "IterativeIgnoringExistingProviders"
    THEN IterativeIgnoringExistingProviders_find_providers(inst, stack, amount)
    ELSE Iterative_find_providers(inst, stack, amount)

\* _generate_production passing over a missing production in silence, as
\* plan_production_ignoring_existing does
generate_production_silent(inst, article, amount, d_counter, p_counter) ==
    LET inst1 == build_data_if_needed(inst)
        article_production == inst1.by_article[article]
    IN  IF article_production.id = None
        THEN [raised |-> FALSE, instance |-> inst1, pushed |-> <<>>,
              providers |-> <<>>, demand_counter |-> d_counter,
              provider_counter |-> p_counter]
        ELSE LET nd == new_demands(article_production.requirements, amount,
                                   article_production.id, d_counter)
                 np == new_provider(article, amount, article_production.id, p_counter)
             IN  [raised |-> FALSE, instance |-> inst1, pushed |-> nd.demands,
                  providers |-> <<ProviderAmount(np.provider, np.provider.amount)>>,
                  demand_counter |-> nd.counter, provider_counter |-> np.counter]

\* _generate_production asking for the produced article again instead of each
\* required article
generate_production_same_article(inst, article, amount, d_counter, p_counter) ==
    LET inst1 == build_data_if_needed(inst)
        article_production == inst1.by_article[article]
    IN  IF article_production.id = None
        THEN [raised |-> TRUE, instance |-> inst1, pushed |-> <<>>,
              providers |-> <<>>, demand_counter |-> d_counter,
              provider_counter |-> p_counter]
        ELSE LET nd == new_demands([i \in DOMAIN article_production.requirements |->
                                       <<article, article_production.requirements[i][2]>>],
                                   amount, article_production.id, d_counter)
                 np == new_provider(article, amount, article_production.id, p_counter)
             IN  [raised |-> FALSE, instance |-> inst1, pushed |-> nd.demands,
                  providers |-> <<ProviderAmount(np.provider, np.provider.amount)>>,
                  demand_counter |-> nd.counter, provider_counter |-> np.counter]

\* _generate_production: raised, or the demands pushed, the provider made and
\* both id counters afterwards; the instance builds its index on the first get
generate_production(inst, article, amount, d_counter, p_counter) ==
    LET inst1 == build_data_if_needed(inst)
        article_production == inst1.by_article[article]
    IN  IF article_production.id = None
        THEN [raised |-> TRUE, instance |-> inst1, pushed |-> <<>>,
              providers |-> <<>>, demand_counter |-> d_counter,
              provider_counter |-> p_counter]
        ELSE LET nd == new_demands(article_production.requirements, amount,
                                   article_production.id, d_counter)
                 np == new_provider(article, amount, article_production.id, p_counter)
             IN  [raised |-> FALSE, instance |-> inst1, pushed |-> nd.demands,
                  providers |-> <<ProviderAmount(np.provider, np.provider.amount)>>,
                  demand_counter |-> nd.counter, provider_counter |-> np.counter]

map_demand_providers(demand, pas) ==
    [i \in DOMAIN pas |-> Mapping(pas[i].provider.id, demand.id, pas[i].amount)]

ProvidersOf(pas) == [i \in DOMAIN pas |-> pas[i].provider]

\* a pass of the loop that leaves the provider it generated on the stack of
\* its article, where a later demand of the article finds it
iteration_stacking_generated(k, inst, queue, stacks, d_counter, p_counter) ==
    LET popped == q_pop(queue)
        demand == popped.demand
        article == demand.article
        found == find_providers(k, inst, stacks[article], demand.amount)
        gen == IF found.remaining > 0
               THEN generate_production(found.instance, article, found.remaining,
                                        d_counter, p_counter)
               ELSE [raised |-> FALSE, instance |-> found.instance, pushed |-> <<>>,
                     providers |-> <<>>, demand_counter |-> d_counter,
                     provider_counter |-> p_counter]
        demand_mappings == map_demand_providers(demand, found.needed)
                           \o map_demand_providers(demand, gen.providers)
    IN  [outcome |-> IF gen.raised THEN "UndefinedProductionError"
                     ELSE IF SumSeq(Amounts(demand_mappings)) # demand.amount
                          THEN "AssertionError" ELSE "ok",
         demand |-> demand,
         instance |-> gen.instance,
         queue |-> q_push_all(popped.queue, gen.pushed),
         stacks |-> [stacks EXCEPT ![article] = found.stack \o gen.providers],
         demand_counter |-> gen.demand_counter,
         provider_counter |-> gen.provider_counter,
         providers |-> ProvidersOf(found.needed) \o ProvidersOf(gen.providers),
         mappings |-> demand_mappings]

\* one pass of the while loop of _solve on the engine's state
iteration(k, inst, queue, stacks, d_counter, p_counter) ==
    LET popped == q_pop(queue)
        demand == popped.demand
        article == demand.article
        \* the pass once _find_providers has given found and, where an amount
        \* is left, _generate_production has given gen
        pass(found, gen) ==
            LET providers_existing == found.needed
                demand_mappings == map_demand_providers(demand, providers_existing)
                                   \o map_demand_providers(demand, gen.providers)
            IN  [outcome |-> IF gen.raised THEN "UndefinedProductionError"
                             ELSE IF SumSeq(Amounts(demand_mappings)) # demand.amount
                                  THEN "AssertionError" ELSE "ok",
                 demand |-> demand,
                 instance |-> gen.instance,
                 queue |-> q_push_all(popped.queue, gen.pushed),
                 stacks |-> [stacks EXCEPT ![article] = found.stack],
                 demand_counter |-> gen.demand_counter,
                 provider_counter |-> gen.provider_counter,
                 providers |-> ProvidersOf(providers_existing) \o ProvidersOf(gen.providers),
                 mappings |-> demand_mappings]
        generated(found) ==
            LET amount_not_provided == found.remaining
            IN  IF amount_not_provided > 0
                THEN generate_production(found.instance, article, amount_not_provided,
                                         d_counter, p_counter)
                ELSE [raised |-> FALSE, instance |-> found.instance, pushed |-> <<>>,
                      providers |-> <<>>, demand_counter |-> d_counter,
                      provider_counter |-> p_counter]
    IN  CHOOSE it \in UNION {{pass(found, gen) : gen \in {generated(found)}} :
                                found \in {find_providers(k, inst, stacks[article],
                                                          demand.amount)}} : TRUE

\* ------------------------------------- plan_production_ignoring_existing
id_prefix == "[Plan]"

plan_name(instance_name) == instance_name \o ".plan"

construct_id(prefix, id) == id_prefix \o prefix \o ToString(id)

\* the locals of plan_production_ignoring_existing when its loop is first tested
plan_frame(inst) ==
    [pc |-> "running", instance |-> inst, given |-> inst,
     id_demands |-> 0, id_providers |-> 0, demands |-> inst.demands,
     demands_satisfied |-> <<>>, providers |-> <<>>, mappings |-> <<>>,
     result |-> NoResult]

\* before the call
NotCalled == [plan_frame(NoInstance) EXCEPT !.pc = "idle"]

\* pop of plan_production_ignoring_existing: list.pop, the demand appended last
plan_pop(ds) == [demand |-> ds[Len(ds)], demands |-> SubSeq(ds, 1, Len(ds) - 1)]

\* new_demand and push for each requirement of a recipe, in recipe order
RECURSIVE plan_new_demands(_, _, _, _)
plan_new_demands(requirements, amount, origin, id_demands) ==
    IF requirements = <<>> THEN [demands |-> <<>>, id_demands |-> id_demands]
    ELSE LET required_article == Head(requirements)[1]
             required_amount == Head(requirements)[2] * amount
             id == id_demands + 1
             d == Demand(construct_id("D", id), required_article, required_amount, origin)
             rest == plan_new_demands(Tail(requirements), amount, origin, id)
         IN  [demands |-> <<d>> \o rest.demands, id_demands |-> rest.id_demands]

\* a pass of the loop that raises when the article has no production, as
\* Iterative._generate_production does
plan_iteration_raising(f) ==
    LET popped == plan_pop(f.demands)
        demand == popped.demand
        inst1 == build_data_if_needed(f.instance)
        article_production == inst1.by_article[demand.article]
    IN  IF article_production.id = None
        THEN [f EXCEPT !.pc = "UndefinedProductionError", !.instance = inst1,
                       !.demands = popped.demands]
        ELSE LET nd == plan_new_demands(article_production.requirements, demand.amount,
                                        article_production.id, f.id_demands)
                 id == f.id_providers + 1
                 provider == Provider(construct_id("P", id), demand.article,
                                      demand.amount, article_production.id)
             IN  [f EXCEPT !.instance = inst1,
                           !.demands = popped.demands \o nd.demands,
                           !.id_demands = nd.id_demands,
                           !.id_providers = id,
                           !.providers = Append(@, provider),
                           !.mappings = Append(@, Mapping(provider.id, demand.id,
                                                          demand.amount)),
                           !.demands_satisfied = Append(@, demand)]

\* one pass of the while loop of plan_production_ignoring_existing on its frame
plan_iteration(f) ==
    LET popped == plan_pop(f.demands)
        demand == popped.demand
        inst1 == build_data_if_needed(f.instance)
        article_production == inst1.by_article[demand.article]
    IN  IF article_production.id = None
        THEN [f EXCEPT !.instance = inst1, !.demands = popped.demands,
                       !.demands_satisfied = Append(@, demand)]
        ELSE LET nd == plan_new_demands(article_production.requirements, demand.amount,
                                        article_production.id, f.id_demands)
                 id == f.id_providers + 1
                 provider == Provider(construct_id("P", id), demand.article,
                                      demand.amount, article_production.id)
             IN  [f EXCEPT !.instance = inst1,
                           !.demands = popped.demands \o nd.demands,
                           !.id_demands = nd.id_demands,
                           !.id_providers = id,
                           !.providers = Append(@, provider),
                           !.mappings = Append(@, Mapping(provider.id, demand.id,
                                                          demand.amount)),
                           !.demands_satisfied = Append(@, demand)]

\* ------------------------------------------------------------------ actions
Terminal == {"returned", "UndefinedProductionError", "AssertionError"}

\* MappingAlgorithm.solve up to the first loop test: Iterative._init and the
\* three empty lists of _solve.  The engine is handed the object o, which is in
\* the state I and was constructed as G.
SolveObject(e, I, G, o) ==
    /\ pc[e] \in {"constructed"} \cup Terminal
    /\ instance' = [instance EXCEPT ![e] = I]
    /\ given' = [given EXCEPT ![e] = G]
    /\ demand_counter' = [demand_counter EXCEPT ![e] = IdManager_reset(@)]
    /\ provider_counter' = [provider_counter EXCEPT ![e] = IdManager_reset(@)]
    /\ demands_to_satisfy' = [demands_to_satisfy EXCEPT ![e] = I.demands]
    /\ unmapped_providers' = [unmapped_providers EXCEPT ![e] = init_unmapped_providers(I)]
    /\ demands' = [demands EXCEPT ![e] = <<>>]
    /\ providers' = [providers EXCEPT ![e] = <<>>]
    /\ mappings' = [mappings EXCEPT ![e] = <<>>]
    /\ result' = [result EXCEPT ![e] = NoResult]
    /\ error' = [error EXCEPT ![e] = NoError]
    /\ pc' = [pc EXCEPT ![e] = "solving"]
    /\ calls' = [calls EXCEPT ![e] = @ + 1]
    /\ object' = [object EXCEPT ![e] = o]
    /\ UNCHANGED <<kind, got, plan, graph>>

\* solve called with a MappingInstance object made for this call
Solve(e, I) == SolveObject(e, I, I, e \o "#" \o ToString(calls[e] + 1))

\* solve called with the MappingInstance object engine f holds
SolveSameObject(e, f) ==
    /\ object[f] # None
    /\ SolveObject(e, instance[f], given[f], object[f])

\* solve called with any instance of at most n demands, providers and recipe entries
SolveAny(e, n) ==
    \E d \in 0..n : \E p \in 0..(n - d) :
        \E ds \in DemandSpecs(d), ps \in ProviderSpecs(p), book \in RecipeBooks(1, n - d - p) :
            Solve(e, BuildInstance(ds, ps, book))

\* one pass of the loop of _solve; a raise unwinds the frame of _solve
Iterate(e) ==
    /\ pc[e] = "solving"
    /\ demands_to_satisfy[e] # <<>>
    /\ \E it \in {iteration(kind[e], instance[e], demands_to_satisfy[e],
                            unmapped_providers[e], demand_counter[e], provider_counter[e])} :
           /\ it.demand_counter <= MaxGen
           /\ instance' = [x \in Engines |->
                             IF object[x] = object[e] THEN it.instance ELSE instance[x]]
           /\ demands_to_satisfy' = [demands_to_satisfy EXCEPT ![e] = it.queue]
           /\ unmapped_providers' = [unmapped_providers EXCEPT ![e] = it.stacks]
           /\ demand_counter' = [demand_counter EXCEPT ![e] = it.demand_counter]
           /\ provider_counter' = [provider_counter EXCEPT ![e] = it.provider_counter]
           /\ IF it.outcome = "ok"
              THEN /\ demands' = [demands EXCEPT ![e] = Append(@, it.demand)]
                   /\ providers' = [providers EXCEPT ![e] = @ \o it.providers]
                   /\ mappings' = [mappings EXCEPT ![e] = @ \o it.mappings]
                   /\ UNCHANGED <<pc, error>>
              ELSE /\ demands' = [demands EXCEPT ![e] = <<>>]
                   /\ providers' = [providers EXCEPT ![e] = <<>>]
                   /\ mappings' = [mappings EXCEPT ![e] = <<>>]
                   /\ pc' = [pc EXCEPT ![e] = it.outcome]
                   /\ error' = [error EXCEPT ![e] =
                          IF it.outcome = "UndefinedProductionError"
                          THEN UndefinedProductionError(it.instance, it.demand.article)
                          ELSE NoError]
    /\ UNCHANGED <<kind, result, given, calls, object, got, plan, graph>>

\* the loop test of _solve failing: _construct_result and the return of solve
Return(e) ==
    /\ pc[e] = "solving"
    /\ demands_to_satisfy[e] = <<>>
    /\ result' = [result EXCEPT ![e] =
           construct_result(instance[e], demands[e], providers[e], mappings[e])]
    /\ pc' = [pc EXCEPT ![e] = "returned"]
    /\ UNCHANGED <<kind, demand_counter, provider_counter, instance, demands_to_satisfy,
                   unmapped_providers, demands, providers, mappings, error, given, calls,
                   object, got, plan, graph>>

\* an index property of the result of engine e is read
Access(e, property) ==
    /\ pc[e] = "returned"
    /\ \E res \in {MappingResult_build_data_if_needed(result[e])} :
           /\ result' = [result EXCEPT ![e] = res]
           /\ got' = [got EXCEPT ![e] = [property |-> property, value |-> res[property]]]
    /\ UNCHANGED <<kind, demand_counter, provider_counter, instance, demands_to_satisfy,
                   unmapped_providers, demands, providers, mappings, pc, error, given,
                   calls, object, plan, graph>>

\* the engines as their constructors leave them (MappingAlgorithm.__init__,
\* Iterative.__init__); no instance, queue or stack yet
Constructed ==
    /\ demand_counter = [e \in Engines |-> 0]
    /\ provider_counter = [e \in Engines |-> 0]
    /\ instance = [e \in Engines |-> NoInstance]
    /\ demands_to_satisfy = [e \in Engines |-> <<>>]
    /\ unmapped_providers = [e \in Engines |-> [a \in Articles |-> <<>>]]
    /\ demands = [e \in Engines |-> <<>>]
    /\ providers = [e \in Engines |-> <<>>]
    /\ mappings = [e \in Engines |-> <<>>]
    /\ pc = [e \in Engines |-> "constructed"]
    /\ result = [e \in Engines |-> NoResult]
    /\ error = [e \in Engines |-> NoError]
    /\ given = [e \in Engines |-> NoInstance]
    /\ calls = [e \in Engines |-> 0]
    /\ object = [e \in Engines |-> None]
    /\ got = [e \in Engines |-> NoValue]
    /\ plan = NotCalled
    /\ graph = [e \in Engines |-> NotBuilt]

\* build_mapping_graph called on the result a solve returned
BuildGraph(e) ==
    /\ pc[e] = "returned"
    /\ \E built \in {build_mapping_graph(result[e])} :
           /\ result' = [result EXCEPT ![e] = built.result]
           /\ graph' = [graph EXCEPT ![e] = built.frame]
    /\ UNCHANGED <<kind, demand_counter, provider_counter, instance, demands_to_satisfy,
                   unmapped_providers, demands, providers, mappings, pc, error, given,
                   calls, object, got, plan>>

\* ------------------------------------------------- one solve on a new engine
Init ==
    /\ Constructed
    /\ kind \in {k \in [Engines -> Kinds] : k["e2"] = "Iterative"}

Next ==
    \/ calls["e1"] = 0 /\ SolveAny("e1", MaxSize)
    \/ Iterate("e1")
    \/ Return("e1")

Spec == Init /\ [][Next]_vars

\* one solve with a fair scheduler: the loop of _solve runs on until it ends
SpecFair == Spec /\ WF_vars(Iterate("e1")) /\ WF_vars(Return("e1"))

\* ------------------------------------ one solve, then the result is read
NextIndex ==
    \/ calls["e1"] = 0 /\ SolveAny("e1", MaxSize)
    \/ Iterate("e1")
    \/ Return("e1")
    \/ \E property \in IndexProperties : Access("e1", property)

SpecIndex == Init /\ [][NextIndex]_vars

\* ------------------------- one solve, then a graph is built for the result
NextGraph ==
    \/ calls["e1"] = 0 /\ SolveAny("e1", MaxSize)
    \/ Iterate("e1")
    \/ Return("e1")
    \/ BuildGraph("e1")

SpecGraph == Init /\ [][NextGraph]_vars

\* ------------------------------- plan_production_ignoring_existing called
EnginesIdle ==
    UNCHANGED <<kind, demand_counter, provider_counter, instance, demands_to_satisfy,
                unmapped_providers, demands, providers, mappings, pc, result, error,
                given, calls, object, got, graph>>

\* the call, up to the first test of the loop
Plan(I) ==
    /\ plan.pc = "idle"
    /\ plan' = plan_frame(I)
    /\ EnginesIdle

PlanAny(n) ==
    \E d \in 0..n : \E p \in 0..(n - d) :
        \E ds \in DemandSpecs(d), ps \in ProviderSpecs(p), book \in RecipeBooks(1, n - d - p) :
            Plan(BuildInstance(ds, ps, book))

\* one pass of the loop
PlanIterate ==
    /\ plan.pc = "running"
    /\ plan.demands # <<>>
    /\ \E f \in {plan_iteration(plan)} :
           /\ f.id_demands <= MaxGen
           /\ plan' = f
    /\ EnginesIdle

\* the loop test failing: the MappingResult is built and returned
PlanReturn ==
    /\ plan.pc = "running"
    /\ plan.demands = <<>>
    /\ plan' = [plan EXCEPT !.pc = "returned",
                             !.result = MappingResult(plan_name(plan.instance.name),
                                            plan.instance, plan.demands_satisfied,
                                            plan.providers, plan.mappings)]
    /\ EnginesIdle

InitPlan ==
    /\ Constructed
    /\ kind = [e \in Engines |-> "Iterative"]

NextPlan ==
    \/ PlanAny(MaxSize)
    \/ PlanIterate
    \/ PlanReturn

\* the loop runs on until it ends
SpecPlan == InitPlan /\ [][NextPlan]_vars /\ WF_vars(PlanIterate) /\ WF_vars(PlanReturn)

\* -------------------------- a reused engine beside a newly constructed one
\* e1 makes MaxEarlier calls, then solves any instance; after that the new
\* engine e2, of the same class, solves the same instance.
InitReuse ==
    /\ Constructed
    /\ kind \in {k \in [Engines -> Kinds] : k["e1"] = k["e2"]}

NextReuse ==
    \/ calls["e1"] < MaxEarlier /\ \E I \in EarlierInstances : Solve("e1", I)
    \/ calls["e1"] = MaxEarlier /\ SolveAny("e1", MaxSize)
    \/ Iterate("e1")
    \/ Return("e1")
    \/ /\ calls["e1"] = MaxEarlier + 1
       /\ pc["e1"] \in Terminal
       /\ calls["e2"] = 0
       /\ Solve("e2", given["e1"])
    \/ Iterate("e2")
    \/ Return("e2")

SpecReuse == InitReuse /\ [][NextReuse]_vars

\* ---------------------------------- two engines with their steps interleaved
\* e1 solves any instance; e2, of the same class, solves the very same object
\* or an instance of its own, its steps falling anywhere among those of e1.
\* When both calls have ended one of the engines solves, alone, an equal copy
\* of the instance the other was given.
NextSeparate ==
    \/ calls["e1"] = 0 /\ SolveAny("e1", MaxSize)
    \/ calls["e2"] = 0 /\ calls["e1"] = 1 /\ SolveSameObject("e2", "e1")
    \/ calls["e2"] = 0 /\ \E I \in EarlierInstances : Solve("e2", I)
    \/ Iterate("e1")
    \/ Return("e1")
    \/ Iterate("e2")
    \/ Return("e2")
    \/ /\ calls["e1"] = 1 /\ calls["e2"] = 1
       /\ pc["e1"] \in Terminal /\ pc["e2"] \in Terminal
       /\ \/ Solve("e2", given["e1"])
          \/ Solve("e1", given["e2"])

SpecSeparate == InitReuse /\ [][NextSeparate]_vars

\* ------------- the ignoring engine beside Iterative on the emptied instance
\* e1 ignores existing providers and solves any instance; after that e2, an
\* Iterative, solves the same instance with its providers taken out.
InitIgnoring ==
    /\ Constructed
    /\ kind = [e \in Engines |-> IF e = "e1" THEN "IterativeIgnoringExistingProviders"
                                 ELSE "Iterative"]

NextIgnoring ==
    \/ calls["e1"] = 0 /\ SolveAny("e1", MaxSize)
    \/ Iterate("e1")
    \/ Return("e1")
    \/ /\ pc["e1"] \in Terminal
       /\ calls["e2"] = 0
       /\ Solve("e2", [given["e1"] EXCEPT !.providers = <<>>])
    \/ Iterate("e2")
    \/ Return("e2")

SpecIgnoring == InitIgnoring /\ [][NextIgnoring]_vars

\* ------------------------------------------------------------------ claims
IsGenerated(x) == x.origin # None

AmountMappedToDemand(ms, id) ==
    SumSeq(Amounts(SelectSeq(ms, LAMBDA m : m.demand = id)))
AmountMappedFromProvider(ms, id) ==
    SumSeq(Amounts(SelectSeq(ms, LAMBDA m : m.provider = id)))

\* C1: full satisfaction.  The assertion at the end of a loop pass of _solve
\* never fails, and for every demand processed so far, and every demand of a
\* returned result, the amounts of the mappings to it add up to its amount.
C1_FullSatisfaction ==
    \A e \in Engines :
        /\ pc[e] # "AssertionError"
        /\ \A i \in DOMAIN demands[e] :
               AmountMappedToDemand(mappings[e], demands[e][i].id) = demands[e][i].amount
        /\ pc[e] = "returned" =>
               \A i \in DOMAIN result[e].demands :
                   AmountMappedToDemand(result[e].mappings, result[e].demands[i].id)
                       = result[e].demands[i].amount

\* a returned result with a generated demand and a demand that two providers share
C1_Witness ==
    /\ pc["e1"] = "returned"
    /\ \E i \in DOMAIN result["e1"].demands : IsGenerated(result["e1"].demands[i])
    /\ \E i \in DOMAIN result["e1"].demands :
           Len(SelectSeq(result["e1"].mappings,
                         LAMBDA m : m.demand = result["e1"].demands[i].id)) >= 2

\* C2: no provider is oversubscribed.  In a returned result the amounts of the
\* mappings from a provider, over all demands, add up to its amount at most.
C2_NoOversubscription ==
    \A e \in Engines :
        pc[e] = "returned" =>
            /\ \A i \in DOMAIN result[e].providers :
                   AmountMappedFromProvider(result[e].mappings, result[e].providers[i].id)
                       <= result[e].providers[i].amount
            /\ \A i \in DOMAIN given[e].providers :
                   AmountMappedFromProvider(result[e].mappings, given[e].providers[i].id)
                       <= given[e].providers[i].amount

\* a returned result where one existing provider serves two demands and is used up
C2_Witness ==
    /\ pc["e1"] = "returned"
    /\ \E i \in DOMAIN given["e1"].providers :
           LET p == given["e1"].providers[i]
           IN  /\ Len(SelectSeq(result["e1"].mappings, LAMBDA m : m.provider = p.id)) >= 2
               /\ AmountMappedFromProvider(result["e1"].mappings, p.id) = p.amount

\* what is left on the stack of an article, and whether an article has a production
SupplyLeft(e, article) == SumSeq(Amounts(unmapped_providers[e][article]))
HasProduction(inst, article) ==
    \E i \in DOMAIN inst.article_productions : inst.article_productions[i].article = article
ProductionOf(inst, article) ==
    inst.article_productions[CHOOSE i \in DOMAIN inst.article_productions :
                                 inst.article_productions[i].article = article]
Min(a, b) == IF a < b THEN a ELSE b

\* the fields of a MappingInstance its constructor takes
PublicFields(inst) ==
    [name |-> inst.name, articles |-> inst.articles, demands |-> inst.demands,
     providers |-> inst.providers, article_productions |-> inst.article_productions]

\* this step is a pass of the loop of _solve of engine e
Processes(e) ==
    /\ pc[e] = "solving"
    /\ demands_to_satisfy[e] # <<>>
    /\ demands_to_satisfy'[e] # demands_to_satisfy[e]

Raises(e) == pc[e] # "UndefinedProductionError" /\ pc'[e] = "UndefinedProductionError"

\* what a pass of the loop that went through added to the lists of _solve
Added(old, new) == SubSeq(new, Len(old) + 1, Len(new))
IdsOf(s) == {s[i].id : i \in DOMAIN s}

\* C3: an Iterative raises UndefinedProductionError exactly in a pass of the loop
\* whose demand is not covered by what is left on the stack of its article and
\* whose article has no production.  The error carries that article and the
\* instance, there is no result, no id was drawn for the failing demand, nothing
\* was pushed, and once raised the engine processes nothing.
C3_UndefinedProduction ==
    [][\A e \in Engines : kind[e] = "Iterative" =>
          /\ Raises(e) => Processes(e)
          /\ Processes(e) =>
                LET demand == Head(demands_to_satisfy[e])
                    uncovered == demand.amount > SupplyLeft(e, demand.article)
                IN  /\ Raises(e) <=>
                           (uncovered /\ ~HasProduction(given[e], demand.article))
                    /\ Raises(e) =>
                           /\ error'[e].article = demand.article
                           /\ PublicFields(error'[e].instance) = PublicFields(given[e])
                           /\ result'[e] = NoResult
                           /\ demand_counter'[e] = demand_counter[e]
                           /\ provider_counter'[e] = provider_counter[e]
                           /\ demands_to_satisfy'[e] = Tail(demands_to_satisfy[e])
          /\ (pc[e] = "UndefinedProductionError" /\ pc'[e] = "UndefinedProductionError") =>
                /\ demands_to_satisfy'[e] = demands_to_satisfy[e]
                /\ result'[e] = NoResult
                /\ error'[e] = error[e]
      ]_vars

\* raised on a demand that existing supply covered in part, with a demand left in the queue
C3_Witness ==
    /\ kind["e1"] = "Iterative"
    /\ pc["e1"] = "UndefinedProductionError"
    /\ demands_to_satisfy["e1"] # <<>>
    /\ \E i \in DOMAIN given["e1"].providers :
           /\ given["e1"].providers[i].article = error["e1"].article
           /\ given["e1"].providers[i].amount > 0

\* C6: existing supply is used before production.  In a pass of the loop of an
\* Iterative that goes through, for a demand of amount A with S left on the stack
\* of its article, the new mappings from providers of the instance add up to
\* min(A, S); if S >= A no id is drawn and nothing is pushed; if S < A exactly one
\* provider is generated, of amount A - S, and mapped to the demand for A - S.
C6_ExistingSupplyFirst ==
    [][\A e \in Engines : (kind[e] = "Iterative" /\ Processes(e) /\ pc'[e] = "solving") =>
          LET demand == Head(demands_to_satisfy[e])
              A == demand.amount
              S == SupplyLeft(e, demand.article)
              new_mappings == Added(mappings[e], mappings'[e])
              new_providers == Added(providers[e], providers'[e])
              from_existing == SelectSeq(new_mappings,
                                   LAMBDA m : m.provider \in IdsOf(given[e].providers))
              generated == SelectSeq(new_providers, IsGenerated)
          IN  /\ \A i \in DOMAIN new_mappings : new_mappings[i].demand = demand.id
              /\ SumSeq(Amounts(from_existing)) = Min(A, S)
              /\ S >= A =>
                    /\ generated = <<>>
                    /\ Len(from_existing) = Len(new_mappings)
                    /\ demand_counter'[e] = demand_counter[e]
                    /\ provider_counter'[e] = provider_counter[e]
                    /\ demands_to_satisfy'[e] = Tail(demands_to_satisfy[e])
              /\ S < A =>
                    /\ Len(generated) = 1
                    /\ generated[1].amount = A - S
                    /\ generated[1].article = demand.article
                    /\ provider_counter'[e] = provider_counter[e] + 1
                    /\ SelectSeq(new_mappings, LAMBDA m : m.provider = generated[1].id)
                           = <<Mapping(generated[1].id, demand.id, A - S)>>
                    /\ Len(new_mappings) = Len(from_existing) + 1
      ]_vars

\* a demand served by an existing provider in part and, for the rest, by a
\* generated one (the demand of 10 with a provider of 4, in small)
C6_Witness ==
    /\ kind["e1"] = "Iterative"
    /\ pc["e1"] = "solving"
    /\ Len(demands["e1"]) = 1
    /\ Len(mappings["e1"]) = 2
    /\ ~IsGenerated(providers["e1"][1]) /\ IsGenerated(providers["e1"][2])
    /\ mappings["e1"][1].amount > 0 /\ mappings["e1"][2].amount > 0

\* C8: the explosion step.  In a pass of the loop that goes through with a
\* remainder r > 0 for its demand, the queue becomes its tail followed by one
\* new demand per entry of the recipe, in recipe order, of amount multiplier * r
\* and origin the production's id; one provider is generated, for the demand's
\* article, of amount r and the same origin, and one mapping of r leads from it
\* to the demand.
C8_Explosion ==
    [][\A e \in Engines : (Processes(e) /\ pc'[e] = "solving") =>
          LET demand == Head(demands_to_satisfy[e])
              covered == IF kind[e] = "Iterative"
                         THEN Min(demand.amount, SupplyLeft(e, demand.article)) ELSE 0
              r == demand.amount - covered
              P == ProductionOf(given[e], demand.article)
              pushed == Added(Tail(demands_to_satisfy[e]), demands_to_satisfy'[e])
              generated == SelectSeq(Added(providers[e], providers'[e]), IsGenerated)
          IN  r > 0 =>
                /\ HasProduction(given[e], demand.article)
                /\ SubSeq(demands_to_satisfy'[e], 1, Len(demands_to_satisfy[e]) - 1)
                       = Tail(demands_to_satisfy[e])
                /\ Len(pushed) = Len(P.requirements)
                /\ \A i \in DOMAIN pushed :
                       /\ pushed[i].article = P.requirements[i][1]
                       /\ pushed[i].amount = P.requirements[i][2] * r
                       /\ pushed[i].origin = P.id
                /\ Len(generated) = 1
                /\ generated[1].article = demand.article
                /\ generated[1].amount = r
                /\ generated[1].origin = P.id
                /\ providers'[e][Len(providers'[e])] = generated[1]
                /\ mappings'[e][Len(mappings'[e])] = Mapping(generated[1].id, demand.id, r)
                /\ Len(SelectSeq(Added(mappings[e], mappings'[e]),
                                 LAMBDA m : m.provider = generated[1].id)) = 1
      ]_vars

\* after the first pass, for a demand of 2 or more: two demands pushed for a
\* recipe of two different entries, and the provider generated
C8_Witness ==
    /\ pc["e1"] = "solving"
    /\ Len(demands["e1"]) = 1
    /\ Len(demands_to_satisfy["e1"]) = 2
    /\ IsGenerated(demands_to_satisfy["e1"][1]) /\ IsGenerated(demands_to_satisfy["e1"][2])
    /\ demands_to_satisfy["e1"][1].article # demands_to_satisfy["e1"][2].article
    /\ demands_to_satisfy["e1"][1].amount # demands_to_satisfy["e1"][2].amount
    /\ Len(providers["e1"]) = 1 /\ providers["e1"][1].amount >= 2

\* C9: the engine never writes to its input.  At every point of a solve call,
\* also after a return or a raise, the demands, providers (with their amounts),
\* articles and productions of the instance are as they were handed over.
C9_InstanceUntouched ==
    \A e \in Engines :
        /\ PublicFields(instance[e]) = PublicFields(given[e])
        /\ pc[e] = "returned" => PublicFields(result[e].instance) = PublicFields(given[e])
        /\ pc[e] = "UndefinedProductionError" =>
               PublicFields(error[e].instance) = PublicFields(given[e])

\* a call that ended with one provider partly consumed on its stack and the index built
C9_Witness ==
    /\ pc["e1"] \in {"returned", "UndefinedProductionError"}
    /\ instance["e1"].data_built
    /\ \E a \in Articles : \E i \in DOMAIN unmapped_providers["e1"][a] :
           LET entry == unmapped_providers["e1"][a][i]
           IN  0 < entry.amount /\ entry.amount < entry.provider.amount

\* the demands and providers generated so far in a call that has not raised
GeneratedDemands(e) == SelectSeq(demands[e] \o demands_to_satisfy[e], IsGenerated)
GeneratedProviders(e) == SelectSeq(providers[e], IsGenerated)

\* C10: generated identifiers.  In a solve call the k-th generated demand has the
\* id "[Gen]D-k" and the k-th generated provider the id "[Gen]P-k", the counters
\* count them, and so the ids are pairwise distinct, within demands, within
\* providers and between the two.
C10_GeneratedIds ==
    \A e \in Engines : pc[e] \in {"solving", "returned"} =>
        LET gd == GeneratedDemands(e)
            gp == GeneratedProviders(e)
        IN  /\ Len(gd) = demand_counter[e]
            /\ Len(gp) = provider_counter[e]
            /\ \A k \in DOMAIN gd : gd[k].id = "[Gen]D-" \o ToString(k)
            /\ \A k \in DOMAIN gp : gp[k].id = "[Gen]P-" \o ToString(k)
            /\ \A j, k \in DOMAIN gd : j # k => gd[j].id # gd[k].id
            /\ \A j, k \in DOMAIN gp : j # k => gp[j].id # gp[k].id
            /\ \A j \in DOMAIN gd : \A k \in DOMAIN gp : gd[j].id # gp[k].id

\* two demands and two providers generated in one call
C10_Witness ==
    /\ Len(GeneratedDemands("e1")) >= 2
    /\ Len(GeneratedProviders("e1")) >= 2
    /\ pc["e1"] = "returned"

\* how a solve call ended, with the id counters it left
Outcome(e) ==
    [status |-> pc[e], result |-> result[e], error |-> error[e],
     demand_ids |-> demand_counter[e], provider_ids |-> provider_counter[e]]

\* C4: repeated calls are independent.  Whatever calls a reused engine has made
\* before, its solve of an instance ends as the solve of the same instance on a
\* newly constructed engine of the same class does: the same result (demands,
\* providers and mappings, ids included, in the same order) or the same error.
C4_RepeatedCalls ==
    (calls["e1"] = MaxEarlier + 1 /\ pc["e1"] \in Terminal
        /\ calls["e2"] = 1 /\ pc["e2"] \in Terminal)
    => Outcome("e1") = Outcome("e2")

\* both engines returned, the reused one after earlier calls, with generated ids
C4_Witness ==
    /\ calls["e1"] >= 2
    /\ pc["e1"] = "returned"
    /\ calls["e2"] = 1
    /\ pc["e2"] = "returned"
    /\ \E i \in DOMAIN result["e2"].demands : IsGenerated(result["e2"].demands[i])
    /\ \E i \in DOMAIN result["e2"].providers : IsGenerated(result["e2"].providers[i])

\* the recipe graph: an edge from the article of a production to each article it requires
RecipeEdges(inst) ==
    UNION {{<<inst.article_productions[i].article,
              inst.article_productions[i].requirements[j][1]>> :
                j \in DOMAIN inst.article_productions[i].requirements} :
           i \in DOMAIN inst.article_productions}

RECURSIVE Closure(_, _)
Closure(R, n) ==
    IF n = 0 THEN R
    ELSE Closure(R \cup {<<p[1][1], p[2][2]>> : p \in {q \in R \X R : q[1][2] = q[2][1]}},
                 n - 1)

Acyclic(inst) ==
    \A a \in Articles : <<a, a>> \notin Closure(RecipeEdges(inst), Cardinality(Articles))

\* C5: termination.  A solve of an instance whose recipe graph is acyclic ends:
\* it returns a result, the queue then being empty, or it raises
\* UndefinedProductionError.
C5_Termination ==
    (pc["e1"] = "solving" /\ Acyclic(given["e1"]))
    ~> (\/ pc["e1"] = "returned" /\ demands_to_satisfy["e1"] = <<>>
        \/ pc["e1"] = "UndefinedProductionError")

\* an acyclic instance solved through two generated demands
C5_Witness ==
    /\ pc["e1"] = "returned"
    /\ Acyclic(given["e1"])
    /\ RecipeEdges(given["e1"]) # {}
    /\ demand_counter["e1"] >= 2
    /\ Len(result["e1"].demands) >= 3

\* C7: the ignoring engine.  It never uses a provider of the instance: no
\* mapping names one and none is in its providers; every demand it has processed
\* has exactly one mapping, from a generated provider of the demand's whole
\* amount; and its solve ends as the solve of an Iterative on the same instance
\* without its providers does: the same demands, providers and mappings, or the
\* same error article.
C7_IgnoringMode ==
    /\ \A e \in Engines : kind[e] = "IterativeIgnoringExistingProviders" =>
          /\ \A i \in DOMAIN mappings[e] :
                 mappings[e][i].provider \notin IdsOf(given[e].providers)
          /\ \A i \in DOMAIN providers[e] :
                 /\ providers[e][i].id \notin IdsOf(given[e].providers)
                 /\ IsGenerated(providers[e][i])
          /\ \A i \in DOMAIN demands[e] : demands[e][i].amount > 0 =>
                 LET to == SelectSeq(mappings[e], LAMBDA m : m.demand = demands[e][i].id)
                 IN  /\ Len(to) = 1
                     /\ to[1].amount = demands[e][i].amount
                     /\ \E j \in DOMAIN providers[e] :
                            /\ providers[e][j].id = to[1].provider
                            /\ providers[e][j].amount = demands[e][i].amount
          /\ pc[e] = "returned" =>
                 /\ result[e].demands = demands[e]
                 /\ result[e].providers = providers[e]
                 /\ result[e].mappings = mappings[e]
    /\ (pc["e1"] \in Terminal /\ calls["e2"] = 1 /\ pc["e2"] \in Terminal
            /\ PublicFields(given["e2"]) = [PublicFields(given["e1"]) EXCEPT !.providers = <<>>])
       => /\ pc["e1"] = pc["e2"]
          /\ result["e1"].demands = result["e2"].demands
          /\ result["e1"].providers = result["e2"].providers
          /\ result["e1"].mappings = result["e2"].mappings
          /\ error["e1"].article = error["e2"].article

\* both returned, on an instance with a provider that could have served a demand
C7_Witness ==
    /\ kind["e1"] = "IterativeIgnoringExistingProviders"
    /\ pc["e1"] = "returned"
    /\ calls["e2"] = 1
    /\ pc["e2"] = "returned"
    /\ given["e2"].providers = <<>>
    /\ \E i \in DOMAIN given["e1"].providers : \E j \in DOMAIN given["e1"].demands :
           /\ given["e1"].providers[i].article = given["e1"].demands[j].article
           /\ given["e1"].providers[i].amount > 0

\* the ids the two id managers have handed out in the call of engine e
GeneratedDemandIds(e) == {demand_format(k) : k \in 1..demand_counter[e]}
GeneratedProviderIds(e) == {provider_format(k) : k \in 1..provider_counter[e]}
MappedProviderIds(ms) == {ms[i].provider : i \in DOMAIN ms}

\* every demand of the instance and every demand generated is in the result
AllDemandsListed(e) ==
    /\ \A i \in DOMAIN given[e].demands :
           \E j \in DOMAIN result[e].demands : result[e].demands[j] = given[e].demands[i]
    /\ \A id \in GeneratedDemandIds(e) :
           \E j \in DOMAIN result[e].demands :
               result[e].demands[j].id = id /\ IsGenerated(result[e].demands[j])

\* every provider generated is in the result
GeneratedProvidersListed(e) ==
    \A id \in GeneratedProviderIds(e) :
        \E j \in DOMAIN result[e].providers :
            result[e].providers[j].id = id /\ IsGenerated(result[e].providers[j])

\* C11 as stated: a returned result lists every demand, of the instance and
\* generated, and every provider, of the instance and generated.
C11_EveryProviderListed ==
    \A e \in Engines : pc[e] = "returned" =>
        /\ AllDemandsListed(e)
        /\ GeneratedProvidersListed(e)
        /\ \A i \in DOMAIN given[e].providers :
               \E j \in DOMAIN result[e].providers :
                   result[e].providers[j] = given[e].providers[i]

\* C11 amended: a returned result lists every demand, of the instance and
\* generated, every generated provider, and of the providers of the instance
\* exactly those a mapping draws from; a provider of the instance no demand drew
\* from is not listed.
C11_ResultCompleteness ==
    \A e \in Engines : pc[e] = "returned" =>
        /\ AllDemandsListed(e)
        /\ GeneratedProvidersListed(e)
        /\ \A i \in DOMAIN given[e].providers :
               (given[e].providers[i].id \in MappedProviderIds(result[e].mappings))
               <=> (\E j \in DOMAIN result[e].providers :
                        result[e].providers[j] = given[e].providers[i])
        /\ IdsOf(result[e].providers) = MappedProviderIds(result[e].mappings)
        /\ IdsOf(result[e].demands) = IdsOf(given[e].demands) \cup GeneratedDemandIds(e)

\* a returned result with a generated demand, a generated provider and a
\* provider of the instance that served a demand
C11_Witness ==
    /\ pc["e1"] = "returned"
    /\ \E j \in DOMAIN result["e1"].demands : IsGenerated(result["e1"].demands[j])
    /\ \E j \in DOMAIN result["e1"].providers : IsGenerated(result["e1"].providers[j])
    /\ \E j \in DOMAIN result["e1"].providers :
           result["e1"].providers[j].id \in IdsOf(given["e1"].providers)

\* C12 as stated: every mapping of a returned result has an amount above 0 (the
\* instances solved have demands of amount > 0 and providers of amount >= 0).
C12_PositiveMappings ==
    \A e \in Engines : pc[e] = "returned" =>
        \A i \in DOMAIN result[e].mappings : result[e].mappings[i].amount > 0

\* C13: mapping uniqueness.  Among the mappings gathered so far, and in a
\* returned result, no two have the same provider id and the same demand id.
C13_MappingUniqueness ==
    \A e \in Engines :
        /\ \A i, j \in DOMAIN mappings[e] :
               (/\ mappings[e][i].provider = mappings[e][j].provider
                /\ mappings[e][i].demand = mappings[e][j].demand) => i = j
        /\ pc[e] = "returned" =>
               \A i, j \in DOMAIN result[e].mappings :
                   (/\ result[e].mappings[i].provider = result[e].mappings[j].provider
                    /\ result[e].mappings[i].demand = result[e].mappings[j].demand) => i = j

\* a returned result where one provider serves two demands and one demand is
\* served by two providers
C13_Witness ==
    /\ pc["e1"] = "returned"
    /\ \E i, j \in DOMAIN result["e1"].mappings :
           /\ i # j
           /\ result["e1"].mappings[i].provider = result["e1"].mappings[j].provider
    /\ \E i, j \in DOMAIN result["e1"].mappings :
           /\ i # j
           /\ result["e1"].mappings[i].demand = result["e1"].mappings[j].demand

\* the number k of the generated demand d, whose id is "[Gen]D-k"
NumberOf(e, d) == CHOOSE k \in 1..demand_counter[e] : demand_format(k) = d.id

\* the demands the pass for the j-th processed demand pushed: one per entry of
\* the recipe if a provider was generated for it, none otherwise
PushedBy(e, j) ==
    LET d == demands[e][j]
    IN  IF \E i \in DOMAIN mappings[e] :
               /\ mappings[e][i].demand = d.id
               /\ mappings[e][i].provider \in GeneratedProviderIds(e)
        THEN Len(ProductionOf(given[e], d.article).requirements)
        ELSE 0

\* the place, among the processed demands, of the demand whose expansion
\* generated the k-th generated demand; 0 if its parent is not among them
RECURSIVE ParentOf(_, _, _, _)
ParentOf(e, k, j, before) ==
    IF j > Len(demands[e]) THEN 0
    ELSE IF before + PushedBy(e, j) >= k THEN j
    ELSE ParentOf(e, k, j + 1, before + PushedBy(e, j))

\* the expansion depth of a demand: 0 for a demand of the instance, one more
\* than its parent's for a generated demand
RECURSIVE DepthOf(_, _)
DepthOf(e, d) ==
    IF ~IsGenerated(d) THEN 0
    ELSE LET j == ParentOf(e, NumberOf(e, d), 1, 0)
         IN  IF j = 0 THEN 0 - 1 ELSE DepthOf(e, demands[e][j]) + 1

\* the demands processed so far followed by the queue
InOrder(e) == demands[e] \o demands_to_satisfy[e]

\* C15: FIFO, breadth first.  In a call that has not raised, the demands
\* processed so far followed by the queue are the demands of the instance in
\* their order followed by the generated demands in the order of generation
\* (so a demand is processed after every demand enqueued before it, and a
\* returned result lists them in that order), and the expansion depth never
\* falls along that list: all of depth n come before any of depth n + 1.
C15_BreadthFirst ==
    \A e \in Engines : pc[e] \in {"solving", "returned"} =>
        LET n == Len(given[e].demands)
            all == InOrder(e)
        IN  /\ Len(all) = n + demand_counter[e]
            /\ SubSeq(all, 1, n) = given[e].demands
            /\ \A k \in 1..demand_counter[e] :
                   all[n + k].id = demand_format(k) /\ IsGenerated(all[n + k])
            /\ \A i, j \in DOMAIN all :
                   i < j => /\ DepthOf(e, all[i]) >= 0
                            /\ DepthOf(e, all[i]) <= DepthOf(e, all[j])
            /\ pc[e] = "returned" => result[e].demands = all

\* two demands of the instance and the two demands generated for them, all
\* processed and returned
C15_Witness ==
    /\ pc["e1"] = "returned"
    /\ Len(given["e1"].demands) = 2
    /\ Len(result["e1"].demands) = 4
    /\ DepthOf("e1", result["e1"].demands[3]) = 1
    /\ DepthOf("e1", result["e1"].demands[4]) = 1

\* the providers of the instance for an article, in the order of instance.providers
ProvidersFor(inst, a) == SelectSeq(inst.providers, LAMBDA p : p.article = a)

\* the stack of an article holds the first providers listed for it, in their
\* order, and only its top entry may be partly spent
StackShape(e, a) ==
    LET stack == unmapped_providers[e][a]
        listed == ProvidersFor(given[e], a)
    IN  /\ Len(stack) <= Len(listed)
        /\ \A i \in DOMAIN stack :
               /\ stack[i].provider = listed[i]
               /\ i < Len(stack) => stack[i].amount = listed[i].amount
               /\ i = Len(stack) => (0 < stack[i].amount \/ listed[i].amount = 0)
                                     /\ stack[i].amount <= listed[i].amount

\* what lies above the i-th entry of a stack
Above(stack, i) == SumSeq(Amounts(SubSeq(stack, i + 1, Len(stack))))

\* C16: stack-ordered consumption.  The stack of an article is always a front
\* part of the providers listed for it, untouched except for its top entry.  A
\* pass of the loop of an Iterative for a demand of amount A touches the entries
\* of that article's stack from the top: an entry is reached iff what lies above
\* it is less than A; a reached entry holding more than is still needed stays,
\* reduced by the need, and one holding the need or less is taken whole and
\* removed; the entries below stay as they are, as do the other stacks; and the
\* mappings to providers of the instance follow that order, top first.
C16_StackOrder ==
    [][\A e \in Engines : kind[e] = "Iterative" =>
          /\ pc'[e] = "solving" => \A a \in Articles : StackShape(e, a)'
          /\ Processes(e) =>
                LET demand == Head(demands_to_satisfy[e])
                    A == demand.amount
                    stack == unmapped_providers[e][demand.article]
                    after == unmapped_providers'[e][demand.article]
                    n == Len(stack)
                    Need(i) == A - Above(stack, i)
                    Reached(i) == Need(i) > 0
                    Removed(i) == Reached(i) /\ stack[i].amount <= Need(i)
                    kept == {i \in 1..n : ~Removed(i)}
                    taken == Cardinality({i \in 1..n : Reached(i)})
                    from_existing ==
                        SelectSeq(Added(mappings[e], mappings'[e]),
                                  LAMBDA m : m.provider \in IdsOf(given[e].providers))
                IN  /\ kept = 1..Len(after)
                    /\ \A i \in kept :
                           /\ after[i].provider = stack[i].provider
                           /\ after[i].amount =
                                  IF Reached(i) THEN stack[i].amount - Need(i)
                                  ELSE stack[i].amount
                    /\ \A a \in Articles \ {demand.article} :
                           unmapped_providers'[e][a] = unmapped_providers[e][a]
                    /\ pc'[e] = "solving" =>
                           /\ Len(from_existing) = taken
                           /\ \A k \in 1..taken :
                                  /\ from_existing[k].provider = stack[n + 1 - k].provider.id
                                  /\ from_existing[k].amount =
                                         Min(stack[n + 1 - k].amount, Need(n + 1 - k))
      ]_vars

\* a pass that took the top provider whole, for exactly what it held, and the
\* next one in part
C16_Witness ==
    /\ kind["e1"] = "Iterative"
    /\ pc["e1"] = "solving"
    /\ \E a \in Articles :
           /\ Len(ProvidersFor(given["e1"], a)) = 2
           /\ Len(unmapped_providers["e1"][a]) = 1
           /\ unmapped_providers["e1"][a][1].amount = 1
           /\ unmapped_providers["e1"][a][1].provider.amount = 2
           /\ Len(demands["e1"]) = 1
           /\ Len(mappings["e1"]) = 2

\* the articles on a cycle of the recipe graph
OnCycle(inst) ==
    {a \in Articles : <<a, a>> \in Closure(RecipeEdges(inst), Cardinality(Articles))}

\* the articles an instance demands or one of its recipes requires
Wanted(inst) ==
    {inst.demands[i].article : i \in DOMAIN inst.demands}
        \cup {edge[2] : edge \in RecipeEdges(inst)}

\* no existing supply for an article on a cycle, and a production for every
\* article that can come to be demanded
NoWayOut(inst) ==
    /\ \A i \in DOMAIN inst.providers : inst.providers[i].article \notin OnCycle(inst)
    /\ \A a \in Wanted(inst) : HasProduction(inst, a)

\* what existing supply gives the demand at the head of the queue
Covered(e) ==
    LET demand == Head(demands_to_satisfy[e])
    IN  IF kind[e] = "Iterative"
        THEN Min(demand.amount, SupplyLeft(e, demand.article)) ELSE 0

CycleDemandIn(e, ds) == \E i \in DOMAIN ds : ds[i].article \in OnCycle(given[e])

\* C17 as stated: once a demand for an article on a cycle of the recipe graph is
\* processed the solve never ends.  The pass that processes it generates new
\* demands and leaves the queue non-empty, and from then on the solve neither
\* returns nor raises.
C17_CyclicNeverEnds ==
    [][\A e \in Engines :
          /\ (Processes(e) /\ Head(demands_to_satisfy[e]).article \in OnCycle(given[e])) =>
                /\ pc'[e] = "solving"
                /\ demands_to_satisfy'[e] # <<>>
                /\ demand_counter'[e] > demand_counter[e]
          /\ (pc[e] = "solving" /\ CycleDemandIn(e, demands[e])) =>
                pc'[e] = "solving" /\ demands_to_satisfy'[e] # <<>>
      ]_vars

\* C17 amended.  A pass that processes a demand for an article on a cycle with
\* a shortfall (existing supply does not cover its amount) generates new
\* demands, one of them for an article on a cycle, and does not raise.  And when
\* the instance has no provider for an article on a cycle and a production for
\* every article it demands or requires, then once a demand for an article on a
\* cycle is processed the solve never ends: the queue always holds a demand for
\* an article on a cycle, every pass for such a demand generates new demands,
\* and the solve neither returns nor raises.
C17_CyclicShortfallNeverEnds ==
    [][\A e \in Engines :
          /\ (/\ Processes(e)
              /\ Head(demands_to_satisfy[e]).article \in OnCycle(given[e])
              /\ Covered(e) < Head(demands_to_satisfy[e]).amount) =>
                /\ pc'[e] = "solving"
                /\ demand_counter'[e] > demand_counter[e]
                /\ CycleDemandIn(e, Added(Tail(demands_to_satisfy[e]),
                                          demands_to_satisfy'[e]))
          /\ NoWayOut(given[e]) =>
                /\ (Processes(e)
                        /\ Head(demands_to_satisfy[e]).article \in OnCycle(given[e])) =>
                       Covered(e) = 0
                /\ (pc[e] = "solving" /\ CycleDemandIn(e, demands[e])) =>
                       /\ pc'[e] = "solving"
                       /\ CycleDemandIn(e, demands_to_satisfy'[e])
                       /\ result'[e] = NoResult
                       /\ error'[e] = NoError
      ]_vars

\* a solve on a cycle through both articles, three demands generated so far
C17_Witness ==
    /\ pc["e1"] = "solving"
    /\ NoWayOut(given["e1"])
    /\ OnCycle(given["e1"]) = Articles
    /\ CycleDemandIn("e1", demands["e1"])
    /\ demand_counter["e1"] >= 3
    /\ demands_to_satisfy["e1"] # <<>>

\* the providers of the instance that are on no stack of engine e
OffStack(e) ==
    {given[e].providers[i] : i \in DOMAIN given[e].providers}
        \ UNION {{unmapped_providers[e][a][i].provider :
                      i \in DOMAIN unmapped_providers[e][a]} : a \in Articles}

\* C18: remaining-amount bookkeeping.  At every boundary of a pass of the loop
\* of _solve, an entry on a stack has 0 <= remaining <= the provider's amount,
\* and remaining is the provider's amount less the amounts of the mappings
\* recorded so far that name the provider; the mappings that name a provider of
\* the instance no longer on a stack add up to its amount.
C18_RemainingAmounts ==
    \A e \in Engines : pc[e] = "solving" =>
        /\ \A a \in Articles : \A i \in DOMAIN unmapped_providers[e][a] :
               LET entry == unmapped_providers[e][a][i]
               IN  /\ 0 <= entry.amount
                   /\ entry.amount <= entry.provider.amount
                   /\ entry.provider \in {given[e].providers[j] :
                                              j \in DOMAIN given[e].providers}
                   /\ entry.amount = entry.provider.amount
                          - AmountMappedFromProvider(mappings[e], entry.provider.id)
        /\ \A p \in OffStack(e) :
               AmountMappedFromProvider(mappings[e], p.id) = p.amount

\* after two passes: a provider that served two demands is off its stack
C18_Witness ==
    /\ pc["e1"] = "solving"
    /\ Len(demands["e1"]) = 2
    /\ \E p \in OffStack("e1") :
           /\ p.amount = 2
           /\ Len(SelectSeq(mappings["e1"], LAMBDA m : m.provider = p.id)) = 2

\* this step is a pass of the loop of plan_production_ignoring_existing
PlanPass == plan.pc = "running" /\ plan.demands # <<>> /\ plan' # plan

\* C14: plan_production_ignoring_existing raises nothing and, on an instance
\* with an acyclic recipe graph, returns a MappingResult (on the empty instance
\* an empty one).  A pass of its loop records one demand of its list as
\* satisfied; if the demand's article has no production it adds no provider and
\* no mapping and draws no id; if it has one it appends one demand per entry of
\* the recipe (amount multiplier * the demand's amount, origin the production)
\* and adds one provider of the demand's whole amount with one mapping of that
\* amount to the demand.  The result holds the demands recorded, the providers
\* and the mappings.
C14_PlanNoError ==
    /\ [][/\ plan'.pc \in {"idle", "running", "returned"}
          /\ PlanPass =>
                LET d == plan'.demands_satisfied[Len(plan'.demands_satisfied)]
                    P == ProductionOf(plan.given, d.article)
                    kept == Len(plan.demands) - 1
                    pushed == SubSeq(plan'.demands, kept + 1, Len(plan'.demands))
                IN  /\ plan'.pc = "running"
                    /\ plan'.demands_satisfied = Append(plan.demands_satisfied, d)
                    /\ \E i \in DOMAIN plan.demands : plan.demands[i] = d
                    /\ \A i \in 1..kept :
                           \E j \in DOMAIN plan.demands : plan.demands[j] = plan'.demands[i]
                    /\ ~HasProduction(plan.given, d.article) =>
                           /\ plan'.providers = plan.providers
                           /\ plan'.mappings = plan.mappings
                           /\ plan'.id_demands = plan.id_demands
                           /\ plan'.id_providers = plan.id_providers
                           /\ Len(plan'.demands) = kept
                    /\ HasProduction(plan.given, d.article) =>
                           /\ Len(pushed) = Len(P.requirements)
                           /\ \A i \in DOMAIN pushed :
                                  pushed[i] = Demand("[Plan]D" \o ToString(plan.id_demands + i),
                                                     P.requirements[i][1],
                                                     P.requirements[i][2] * d.amount, P.id)
                           /\ plan'.id_demands = plan.id_demands + Len(pushed)
                           /\ plan'.id_providers = plan.id_providers + 1
                           /\ plan'.providers = Append(plan.providers,
                                  Provider("[Plan]P" \o ToString(plan'.id_providers),
                                           d.article, d.amount, P.id))
                           /\ plan'.mappings = Append(plan.mappings,
                                  Mapping("[Plan]P" \o ToString(plan'.id_providers),
                                          d.id, d.amount))
          /\ (plan.pc = "running" /\ plan'.pc = "returned") =>
                /\ plan'.result.name = plan.given.name \o ".plan"
                /\ PublicFields(plan'.result.instance) = PublicFields(plan.given)
                /\ plan'.result.demands = plan.demands_satisfied
                /\ plan'.result.providers = plan.providers
                /\ plan'.result.mappings = plan.mappings
                /\ \A i \in DOMAIN plan.given.demands :
                       \E j \in DOMAIN plan'.result.demands :
                           plan'.result.demands[j] = plan.given.demands[i]
                /\ plan.given.demands = <<>> =>
                       /\ plan'.result.demands = <<>>
                       /\ plan'.result.providers = <<>>
                       /\ plan'.result.mappings = <<>>
         ]_vars
    /\ (plan.pc = "running" /\ Acyclic(plan.given)) ~> (plan.pc = "returned")

\* returned: a demand with a production, mapped to one generated provider, and
\* the demand generated for its requirement, whose article has no production
C14_Witness ==
    /\ plan.pc = "returned"
    /\ Acyclic(plan.given)
    /\ Len(plan.result.demands) = 2
    /\ Len(plan.result.mappings) = 1
    /\ Len(plan.result.providers) = 1
    /\ \E i \in DOMAIN plan.result.demands :
           /\ IsGenerated(plan.result.demands[i])
           /\ ~HasProduction(plan.given, plan.result.demands[i].article)

\* how a solve call ended, as its caller sees it
PublicOutcome(e) ==
    [status |-> pc[e], name |-> result[e].name,
     instance |-> PublicFields(result[e].instance),
     demands |-> result[e].demands, providers |-> result[e].providers,
     mappings |-> result[e].mappings,
     article |-> error[e].article, of |-> PublicFields(error[e].instance)]

\* C19: separate engines do not disturb each other.  When two engines have
\* solved with their steps interleaved, on the same MappingInstance object or
\* on two, the outcome of each (result or error) is the outcome of a solve of an
\* equal instance run alone.
C19_SeparateEngines ==
    (/\ calls["e1"] + calls["e2"] = 3
     /\ pc["e1"] \in Terminal
     /\ pc["e2"] \in Terminal)
    => PublicOutcome("e1") = PublicOutcome("e2")

\* both engines have solved, an existing provider and a generated one used,
\* and one of them has then solved alone
C19_Witness ==
    /\ calls["e1"] + calls["e2"] = 3
    /\ pc["e1"] = "returned"
    /\ pc["e2"] = "returned"
    /\ Len(result["e1"].mappings) >= 2
    /\ \E i \in DOMAIN result["e1"].providers : IsGenerated(result["e1"].providers[i])
    /\ \E i \in DOMAIN result["e1"].providers : ~IsGenerated(result["e1"].providers[i])

OriginsOf(s) == {s[i].origin : i \in DOMAIN s}

\* by_origin groups the list by origin, each group in the order of the list,
\* and origin_of gives the origin of each id
Indexes(list, by_origin, origin_of) ==
    /\ DOMAIN by_origin = OriginsOf(list)
    /\ \A o \in OriginsOf(list) :
           by_origin[o] = SelectSeq(list, LAMBDA x : x.origin = o)
    /\ DOMAIN origin_of = IdsOf(list)
    /\ \A i \in DOMAIN list :
           /\ origin_of[list[i].id] = list[i].origin
           /\ \E j \in DOMAIN by_origin[origin_of[list[i].id]] :
                  by_origin[origin_of[list[i].id]][j] = list[i]

\* C20: result indexing.  Until an index property of a result is read none of
\* the four indices exists; the first read builds the four together; from then
\* on demands_by_origin and providers_by_origin group the demands and providers
\* of the result by origin (None for those without), each group in list order,
\* demands_origin and providers_origin give each listed id its origin, and each
\* demand is in the group of its own origin; a read gives the index read, and a
\* later read leaves the result, its indices included, as it is.
C20_ResultIndexing ==
    [][\A e \in Engines :
          LET res == result'[e]
          IN  /\ ~res.data_built =>
                    /\ res.demands_by_origin = EmptyDict
                    /\ res.providers_by_origin = EmptyDict
                    /\ res.demands_origin = EmptyDict
                    /\ res.providers_origin = EmptyDict
              /\ res.data_built =>
                    /\ Indexes(res.demands, res.demands_by_origin, res.demands_origin)
                    /\ Indexes(res.providers, res.providers_by_origin, res.providers_origin)
              /\ (pc[e] = "returned" /\ pc'[e] = "returned") =>
                    /\ res.data_built
                    /\ got'[e].property \in IndexProperties
                    /\ got'[e].value = res[got'[e].property]
                    /\ res.demands = result[e].demands
                    /\ res.providers = result[e].providers
                    /\ res.mappings = result[e].mappings
                    /\ result[e].data_built => res = result[e]
      ]_vars

\* a result of two demands of the instance and two generated ones, indexed
\* by a read of providers_origin
C20_Witness ==
    /\ pc["e1"] = "returned"
    /\ result["e1"].data_built
    /\ DOMAIN result["e1"].demands_by_origin = {None, "AP1"}
    /\ Len(result["e1"].demands_by_origin[None]) = 2
    /\ Len(result["e1"].demands_by_origin["AP1"]) = 2
    /\ Cardinality(DOMAIN result["e1"].providers_by_origin) = 2
    /\ got["e1"].property = "providers_origin"

\* C22 as stated: no duplicate entries in the providers of a result.  In a
\* returned result no provider occurs at two positions of providers, also when
\* a provider of the instance served one demand in part and a later demand of
\* the article after it, and the provider id of every mapping is the id of a
\* provider in providers.
C22_NoDuplicateProviders ==
    \A e \in Engines : pc[e] = "returned" =>
        /\ \A i, j \in DOMAIN result[e].providers :
               result[e].providers[i].id = result[e].providers[j].id => i = j
        /\ MappedProviderIds(result[e].mappings) \subseteq IdsOf(result[e].providers)

\* the mappings of ms that name the provider id, and the entries of a list with an id
MappingsFrom(ms, id) == SelectSeq(ms, LAMBDA m : m.provider = id)
WithId(s, id) == SelectSeq(s, LAMBDA x : x.id = id)

\* every provider generated so far is listed once in ps, is named by one
\* mapping of ms, for the provider's whole amount, and the demand of that
\* mapping is a demand of ds for the provider's article
ConsumedExactly(e, ds, ps, ms) ==
    \A id \in GeneratedProviderIds(e) :
        /\ Len(WithId(ps, id)) = 1
        /\ Len(MappingsFrom(ms, id)) = 1
        /\ LET provider == WithId(ps, id)[1]
               mapping == MappingsFrom(ms, id)[1]
           IN  /\ IsGenerated(provider)
               /\ mapping.amount = provider.amount
               /\ Len(WithId(ds, mapping.demand)) = 1
               /\ WithId(ds, mapping.demand)[1].article = provider.article

\* no entry of a provider stack is a generated provider
NoGeneratedOnStack(e) ==
    \A a \in Articles : \A i \in DOMAIN unmapped_providers[e][a] :
        LET provider == unmapped_providers[e][a][i].provider
        IN  /\ ~IsGenerated(provider)
            /\ provider.id \notin GeneratedProviderIds(e)
            /\ \E j \in DOMAIN given[e].providers : given[e].providers[j] = provider

\* C23: generated providers are consumed exactly and never reused.  While a
\* solve runs and in the result it returns, every provider generated is listed
\* once, is named by exactly one mapping, for the provider's whole amount, to a
\* demand of the provider's article; no provider stack ever holds a generated
\* provider.  A pass of the loop generates a provider iff existing providers
\* leave a part of the demand uncovered and the pass does not raise, and then
\* it generates one provider, of the demand's article, for exactly the part not
\* covered, and the one mapping naming it is the last mapping of the pass and
\* goes to the demand of the pass; a pass that raises generates none.
C23_GeneratedConsumedOnce ==
    /\ [](\A e \in Engines :
             /\ NoGeneratedOnStack(e)
             /\ pc[e] = "solving" =>
                    ConsumedExactly(e, demands[e], providers[e], mappings[e])
             /\ pc[e] = "returned" =>
                    ConsumedExactly(e, result[e].demands, result[e].providers,
                                    result[e].mappings))
    /\ [][\A e \in Engines : Processes(e) =>
             LET demand == Head(demands_to_satisfy[e])
                 new_mappings == Added(mappings[e], mappings'[e])
                 new_providers == Added(providers[e], providers'[e])
                 from_existing ==
                     SelectSeq(new_mappings,
                               LAMBDA m : m.provider \in IdsOf(given[e].providers))
                 amount_not_provided == demand.amount - SumSeq(Amounts(from_existing))
                 id == provider_format(provider_counter[e] + 1)
             IN  IF pc'[e] = "solving" /\ provider_counter'[e] # provider_counter[e]
                 THEN /\ provider_counter'[e] = provider_counter[e] + 1
                      /\ amount_not_provided > 0
                      /\ new_mappings # <<>> /\ new_providers # <<>>
                      /\ new_mappings[Len(new_mappings)]
                             = Mapping(id, demand.id, amount_not_provided)
                      /\ LET provider == new_providers[Len(new_providers)]
                         IN  /\ provider.id = id
                             /\ provider.article = demand.article
                             /\ provider.amount = amount_not_provided
                             /\ provider.origin = ProductionOf(given[e], demand.article).id
                      /\ Len(new_mappings) = Len(from_existing) + 1
                 ELSE /\ provider_counter'[e] = provider_counter[e]
                      /\ pc'[e] = "solving" =>
                             /\ amount_not_provided = 0
                             /\ new_mappings = from_existing
      ]_vars

\* a returned result in which one demand took the whole of a provider of the
\* instance and a generated provider for the rest, and a later demand of the
\* same article got a generated provider of its own
C23_Witness ==
    /\ pc["e1"] = "returned"
    /\ \E i, j \in DOMAIN result["e1"].demands :
           LET d1 == result["e1"].demands[i]
               d2 == result["e1"].demands[j]
               to1 == SelectSeq(result["e1"].mappings, LAMBDA m : m.demand = d1.id)
               to2 == SelectSeq(result["e1"].mappings, LAMBDA m : m.demand = d2.id)
           IN  /\ i < j
               /\ d1.article = d2.article
               /\ Len(to1) = 2
               /\ to1[1].provider \in IdsOf(given["e1"].providers)
               /\ to1[2].provider \in GeneratedProviderIds("e1")
               /\ Len(to2) = 1
               /\ to2[1].provider \in GeneratedProviderIds("e1")
               /\ to2[1].provider # to1[2].provider

\* the virtual nodes of a frame that stand for a provider id, or for a demand id
VirtualOfProvider(f, id) == {v \in VirtualNodes(f) : f.virtual_nodes[v] = <<id, None>>}
VirtualOfDemand(f, id) == {v \in VirtualNodes(f) : f.virtual_nodes[v] = <<None, id>>}

\* the ids of the productions that are nodes of the graph of a frame
ProductionNodes(e, f) ==
    {f.graph.nodes[i] : i \in DOMAIN f.graph.nodes}
        \cap {given[e].article_productions[i].id : i \in DOMAIN given[e].article_productions}

\* C21 as stated: virtual nodes in build_mapping_graph.  In the graph built for
\* the result of a solve, each demand and each provider of the result without
\* an originating production has exactly one virtual node standing for it,
\* however many mappings name it; the virtual node ids handed out are pairwise
\* distinct; and no virtual node id is the id of a production that is a node
\* of the graph.
C21_OneVirtualNodePerEntity ==
    \A e \in Engines : graph[e].pc = "returned" =>
        LET f == graph[e]
            res == result[e]
        IN  /\ \A i \in DOMAIN res.demands :
                   ~IsGenerated(res.demands[i]) =>
                       Cardinality(VirtualOfDemand(f, res.demands[i].id)) = 1
            /\ \A i \in DOMAIN res.providers :
                   ~IsGenerated(res.providers[i]) =>
                       Cardinality(VirtualOfProvider(f, res.providers[i].id)) = 1
            /\ Cardinality(VirtualNodes(f)) = f.virtual_node_ids
            /\ VirtualNodes(f) \cap ProductionNodes(e, f) = {}

====
